---------------------------- MODULE Spec2Model ----------------------------
(***************************************************************************)
(* Model of the speaker standardization pipeline of main.py: the nine      *)
(* source transformers, the topic normalizer norm_topics, the              *)
(* deduplication index (fingerprint_name, build_dedupe_index,              *)
(* find_duplicate) and run(), with the target collection and its           *)
(* unordered bulk_write as the store.                                      *)
(*                                                                         *)
(* Strings the code inspects character by character (names, cities) are    *)
(* sequences of one-character strings.  Python's None is the one-element   *)
(* sequence None, which no string equals.  A dict is a function whose      *)
(* DOMAIN is its key set.  sha_id is modelled by the pair <<tag, native    *)
(* id>> it digests: equal inputs give equal ids, different inputs          *)
(* different ids (no SHA-1 collision).                                     *)
(***************************************************************************)
EXTENDS Integers, Sequences, FiniteSets, TLC

(***************************************************************************)
(* Bounds of the model.                                                    *)
(***************************************************************************)
\* documents over all sources in the input of specification Spec
MaxDocs == 3
\* documents over all sources in the input of specification SpecBatch
MaxBatchDocs == 4
\* consecutive executions of run() over the same source data, in the
\* specifications Spec and SpecBatch
MaxRuns == 2
BatchRuns == 1
\* the size at which run() flushes bulk_ops.  main.py:484 flushes at 1000;
\* the model flushes at FlushThreshold and every formula about batch sizes
\* is stated in terms of it.
FlushThreshold == 2
\* operations of one batch that the store may fail
MaxFailed == 1
\* raw topics of the document whose topic list varies, in the input of
\* specification SpecTopics
MaxTopics == 2
\* documents over all sources in the input of specification SpecIndex
MaxIndexDocs == 3

(***************************************************************************)
(* Characters and strings.                                                 *)
(***************************************************************************)
None == <<"None">>

UpperCase == <<"A","B","C","D","E","F","G","H","I","J","K","L","M",
               "N","O","P","Q","R","S","T","U","V","W","X","Y","Z">>
LowerCase == <<"a","b","c","d","e","f","g","h","i","j","k","l","m",
               "n","o","p","q","r","s","t","u","v","w","x","y","z">>

IsUpper(c) == \E i \in 1..26 : UpperCase[i] = c
IsLower(c) == \E i \in 1..26 : LowerCase[i] = c

\* str.lower() on one (ASCII) character
LowerChar(c) ==
  IF IsUpper(c) THEN LowerCase[CHOOSE i \in 1..26 : UpperCase[i] = c] ELSE c

\* str.lower()
Lower(s) == [i \in 1..Len(s) |-> LowerChar(s[i])]

\* re.sub(r"[^a-z]", "", s)
RECURSIVE StripNonLower(_)
StripNonLower(s) ==
  IF s = <<>> THEN <<>>
  ELSE IF IsLower(Head(s)) THEN <<Head(s)>> \o StripNonLower(Tail(s))
       ELSE StripNonLower(Tail(s))

\* Python truthiness of an optional string: None and "" are falsy
Truthy(s) == s # None /\ s # <<>>

\* dict.get(key) with default None
Get(d, k) == IF k \in DOMAIN d THEN d[k] ELSE None

\* the characters the regular expression class \s matches
Whitespace == {" ", "\t", "\n"}

\* the characters of the model's strings in code point order
CodeOrder == <<"\t", "\n", " ", "&", "'", ".">> \o UpperCase \o LowerCase

CharCode(c) == CHOOSE i \in 1..Len(CodeOrder) : CodeOrder[i] = c

\* s1 < s2 on Python strings: lexicographic by code point
RECURSIVE StrLess(_, _)
StrLess(s1, s2) ==
  IF s2 = <<>> THEN FALSE
  ELSE IF s1 = <<>> THEN TRUE
  ELSE IF Head(s1) = Head(s2) THEN StrLess(Tail(s1), Tail(s2))
  ELSE CharCode(Head(s1)) < CharCode(Head(s2))

\* sorted(S) of a set of strings
RECURSIVE Sorted(_)
Sorted(S) ==
  IF S = {} THEN <<>>
  ELSE LET m == CHOOSE x \in S : \A y \in S \ {x} : StrLess(x, y)
       IN  <<m>> \o Sorted(S \ {m})

\* s without its leading whitespace
RECURSIVE LStrip(_)
LStrip(s) ==
  IF s # <<>> /\ Head(s) \in Whitespace THEN LStrip(Tail(s)) ELSE s

\* s without its trailing whitespace
RECURSIVE RStrip(_)
RStrip(s) ==
  IF s # <<>> /\ s[Len(s)] \in Whitespace THEN RStrip(SubSeq(s, 1, Len(s) - 1))
  ELSE s

\* str.strip()
Strip(s) == RStrip(LStrip(s))

\* re.sub(r"\s+", " ", s): every run of whitespace becomes one space
RECURSIVE CollapseWhitespace(_)
CollapseWhitespace(s) ==
  IF s = <<>> THEN <<>>
  ELSE IF Head(s) \in Whitespace THEN <<" ">> \o CollapseWhitespace(LStrip(s))
  ELSE <<Head(s)>> \o CollapseWhitespace(Tail(s))

(***************************************************************************)
(* 0. CONFIG                                                               *)
(***************************************************************************)
\* SRC_DATABASES in iteration (insertion) order
SRC_DATABASES ==
  << "a_speakers", "allamericanspeakers", "bigspeak_scraper", "eventraptor",
     "freespeakerbureau_scraper", "leading_authorities", "sessionize_scraper",
     "speakerhub_scraper", "thespeakerhandbook_scraper" >>

NumSources == Len(SRC_DATABASES)

\* the tag each transformer puts before "|" in the digested text
SourceTag ==
  [ a_speakers |-> "a_speakers", allamericanspeakers |-> "allamerican",
    bigspeak_scraper |-> "bigspeak", eventraptor |-> "eventraptor",
    freespeakerbureau_scraper |-> "freespeaker",
    leading_authorities |-> "leadingauth", sessionize_scraper |-> "sessionize",
    speakerhub_scraper |-> "speakerhub", thespeakerhandbook_scraper |-> "tsh" ]

\* source_info.original_source written by each transformer
OriginalSource ==
  [ a_speakers |-> "a_speakers", allamericanspeakers |-> "allamericanspeakers",
    bigspeak_scraper |-> "bigspeak", eventraptor |-> "eventraptor",
    freespeakerbureau_scraper |-> "freespeakerbureau",
    leading_authorities |-> "leadingauthorities",
    sessionize_scraper |-> "sessionize", speakerhub_scraper |-> "speakerhub",
    thespeakerhandbook_scraper |-> "thespeakerhandbook" ]

\* How each transformer picks the native identifier it digests:
\*   "pk"       doc["_id"], the store's primary key (always present)
\*   "strict"   doc["speaker_id"] / doc["speaker_page_url"]: KeyError if absent
\*   "fallback" the business identifier, or str(doc.get("_id", "")) without it
IdRule ==
  [ a_speakers |-> "pk", allamericanspeakers |-> "strict",
    bigspeak_scraper |-> "strict", eventraptor |-> "strict",
    freespeakerbureau_scraper |-> "pk", leading_authorities |-> "strict",
    sessionize_scraper |-> "fallback", speakerhub_scraper |-> "pk",
    thespeakerhandbook_scraper |-> "fallback" ]

\* the keys of the dict each transformer returns
CommonKeys ==
  {"_id", "name", "biography", "location", "topics", "categories",
   "topics_unmapped", "media", "source_info"}

OutputKeys ==
  [ a_speakers |-> CommonKeys \cup
      {"display_name", "job_title", "description", "tagline", "speaking_info",
       "keynotes", "reviews", "ratings"},
    allamericanspeakers |-> CommonKeys \cup
      {"display_name", "job_title", "speaking_info", "keynotes", "ratings",
       "reviews"},
    bigspeak_scraper |-> CommonKeys \cup
      {"display_name", "job_title", "description", "speaking_info"},
    eventraptor |-> CommonKeys \cup {"display_name", "tagline", "contact"},
    freespeakerbureau_scraper |-> CommonKeys \cup
      {"display_name", "job_title", "speaking_info", "contact"},
    leading_authorities |-> CommonKeys \cup
      {"job_title", "description", "speaking_info", "books"},
    sessionize_scraper |-> CommonKeys \cup {"display_name", "tagline"},
    speakerhub_scraper |-> CommonKeys \cup
      {"display_name", "job_title", "speaking_info"},
    thespeakerhandbook_scraper |-> CommonKeys \cup {"display_name", "job_title"} ]

\* keys a transformer sets to the literal None
NoneKeys ==
  [ s \in DOMAIN OutputKeys |->
      CASE s = "a_speakers" -> {"tagline"}
        [] s = "bigspeak_scraper" -> {"job_title"}
        [] OTHER -> {} ]

\* transformers that write "location": {} whatever the document holds
NoLocation == {"eventraptor", "leading_authorities"}

\* TOPIC_MAP, the content of topic_mapping.json: the canonical terms in file
\* order, each with the list of its raw forms.  The file is an input.
VARIABLE TOPIC_MAP

\* REV_TOPIC_MAP = {raw: tgt for tgt, v in TOPIC_MAP.items() for raw in v}:
\* a raw form listed under several terms maps to the last of them
REV_TOPIC_MAP ==
  LET raws(i) == {TOPIC_MAP[i].raws[j] : j \in DOMAIN TOPIC_MAP[i].raws}
      all     == UNION {raws(i) : i \in DOMAIN TOPIC_MAP}
  IN  [raw \in all |->
         LET last == CHOOSE i \in DOMAIN TOPIC_MAP :
                       /\ raw \in raws(i)
                       /\ \A j \in DOMAIN TOPIC_MAP : raw \in raws(j) => j <= i
         IN  TOPIC_MAP[last].canonical]

(***************************************************************************)
(* 1. UTILITIES                                                            *)
(***************************************************************************)
\* sha_id("<tag>|" + native_id)
sha_id(tag, native) == <<tag, native>>

\* parse_location on the comma-separated, stripped parts of the text;
\* <<>> is the absent or empty location
parse_location(parts) ==
  IF parts = <<>> THEN [k \in {} |-> None]
  ELSE [ city          |-> IF Len(parts) \in {2, 3} THEN parts[1] ELSE None,
         state         |-> IF Len(parts) = 3 THEN parts[2] ELSE None,
         country       |-> IF Len(parts) = 3 THEN parts[3]
                           ELSE IF Len(parts) = 2 THEN parts[2] ELSE parts[1],
         full_location |-> parts ]

\* t_clean = re.sub(r"\s+", " ", t).strip()
CleanTopic(t) == Strip(CollapseWhitespace(t))

\* mutant of norm_topics: a topic absent from the mapping is only reported
\* as unmapped, not kept among the topics
norm_topics_DropsUnmapped(topics) ==
  LET raw    == IF topics = None THEN <<>> ELSE topics
      clean  == {CleanTopic(raw[i]) : i \in DOMAIN raw}
      mapped == clean \cap DOMAIN REV_TOPIC_MAP
  IN  << Sorted({REV_TOPIC_MAP[t] : t \in mapped}), Sorted(clean \ mapped) >>

\* norm_topics(topics): the pair (sorted(canon), sorted(unmapped)); with
\* None or an empty list the loop body never runs
norm_topics(topics) ==
  IF topics = None \/ topics = <<>> THEN << <<>>, <<>> >>
  ELSE LET clean  == {CleanTopic(topics[i]) : i \in DOMAIN topics}
           mapped == clean \cap DOMAIN REV_TOPIC_MAP
       IN  << Sorted({REV_TOPIC_MAP[t] : t \in mapped} \cup (clean \ mapped)),
              Sorted(clean \ mapped) >>

(***************************************************************************)
(* 2. TRANSFORMERS                                                         *)
(* A raw document is a dict with "_id" (always), and optionally            *)
(* "native_id" (the business identifier the source's transformer reads:    *)
(* speaker_id, speaker_page_url or username), "name", "location" and       *)
(* "topics" (the list of topic strings the transformer gathers from the    *)
(* document and hands to norm_topics).                                     *)
(* Every other output field is copied from the raw document; its value is  *)
(* modelled by the token <<source, _id>> naming the document it came from. *)
(***************************************************************************)
\* the transformer raises KeyError: doc["speaker_id"], doc["speaker_page_url"]
RaisesKeyError(s, doc) == IdRule[s] = "strict" /\ "native_id" \notin DOMAIN doc

\* the native identifier that goes into the digest
NativeId(s, doc) ==
  CASE IdRule[s] = "pk" -> doc["_id"]
    [] IdRule[s] = "strict" -> doc["native_id"]
    [] OTHER -> IF "native_id" \in DOMAIN doc /\ doc["native_id"] # ""
                THEN doc["native_id"] ELSE doc["_id"]

\* source_info.source_id
SourceId(s, doc) ==
  IF s = "leading_authorities" THEN doc["_id"] ELSE NativeId(s, doc)

RawLocation(doc) == IF "location" \in DOMAIN doc THEN doc["location"] ELSE <<>>

\* the argument of norm_topics: doc.get("topics") and its variants
RawTopics(doc) == Get(doc, "topics")

\* unify_<source>(doc), defined when the transformer does not raise
Transform(s, doc) ==
  [ k \in OutputKeys[s] |->
      CASE k = "_id" -> sha_id(SourceTag[s], NativeId(s, doc))
        [] k \in {"name", "display_name"} -> Get(doc, "name")
        [] k \in {"topics", "categories"} -> norm_topics(RawTopics(doc))[1]
        [] k = "topics_unmapped" -> norm_topics(RawTopics(doc))[2]
        [] k = "location" ->
             IF s \in NoLocation THEN [x \in {} |-> None]
             ELSE parse_location(RawLocation(doc))
        [] k = "source_info" ->
             [ original_source |-> OriginalSource[s],
               source_id       |-> SourceId(s, doc),
               source_url      |-> <<s, doc["_id"]>>,
               scraped_at      |-> <<s, doc["_id"]>> ]
        [] k \in NoneKeys[s] -> None
        [] OTHER -> <<s, doc["_id"]>> ]

(***************************************************************************)
(* 3. DEDUPLICATION HELPERS                                                *)
(***************************************************************************)
\* mutant of fingerprint_name: the name is not lowercased
fingerprint_name_NoLower(name) ==
  IF Truthy(name) THEN StripNonLower(name) ELSE <<>>

fingerprint_name(name) ==
  IF Truthy(name) THEN StripNonLower(Lower(name)) ELSE <<>>

\* doc.get("location", {}).get("city") and unified_doc["location"].get("city")
CityOf(doc) == IF "location" \in DOMAIN doc THEN Get(doc["location"], "city") ELSE None

\* index[key].append(entry) on a defaultdict(list)
IndexAppend(index, key, entry) ==
  IF key \in DOMAIN index THEN [index EXCEPT ![key] = Append(@, entry)]
  ELSE index @@ (key :> <<entry>>)

\* index.get(key, [])
Candidates(index, key) == IF key \in DOMAIN index THEN index[key] ELSE <<>>

\* build_dedupe_index over the documents of the collection in the order the
\* cursor returns them (scan: a sequence of the collection's ids)
RECURSIVE build_dedupe_index(_, _)
build_dedupe_index(collection, scan) ==
  IF scan = <<>> THEN <<>>
  ELSE LET n     == Len(scan)
           index == build_dedupe_index(collection, SubSeq(scan, 1, n - 1))
           doc   == collection[scan[n]]
           key   == fingerprint_name(Get(doc, "name"))
       IN  IF key # <<>> THEN IndexAppend(index, key, <<doc["_id"], CityOf(doc)>>)
           ELSE index

\* length of a longest common subsequence
RECURSIVE LCS(_, _)
LCS(a, b) ==
  IF a = <<>> \/ b = <<>> THEN 0
  ELSE IF Head(a) = Head(b) THEN 1 + LCS(Tail(a), Tail(b))
  ELSE LET x == LCS(Tail(a), b)
           y == LCS(a, Tail(b))
       IN  IF x >= y THEN x ELSE y

\* rapidfuzz.fuzz.ratio: 0 for None, else the normalized indel similarity
\* 100 * 2*LCS / (len1 + len2), here rounded down to a whole number
fuzz_ratio(s1, s2) ==
  IF s1 = None \/ s2 = None THEN 0
  ELSE IF Len(s1) + Len(s2) = 0 THEN 100
  ELSE (200 * LCS(s1, s2)) \div (Len(s1) + Len(s2))

\* the score find_duplicate gives one candidate: the name ratio, which the
\* code takes of the incoming name with itself, plus the city bonus
CandidateScore(unified_doc, city) ==
  fuzz_ratio(unified_doc["name"], Get(unified_doc, "name"))
  + (IF Truthy(city) /\ Truthy(CityOf(unified_doc))
        /\ Lower(city) = Lower(CityOf(unified_doc))
     THEN 10 ELSE 0)

\* mutant of find_duplicate: the best-scoring candidate above 90 (the first
\* of them when several score the same), not the first one above 90
find_duplicate_Best(unified_doc, index) ==
  LET key   == fingerprint_name(unified_doc["name"])
      cands == Candidates(index, key)
      score(i) == CandidateScore(unified_doc, cands[i][2])
      hits  == {i \in 1..Len(cands) : score(i) > 90}
      best  == {i \in hits : \A j \in hits : score(j) <= score(i)}
  IN  IF hits = {} THEN None
      ELSE cands[CHOOSE i \in best : \A j \in best : i <= j][1]

\* find_duplicate: the _id of the first candidate scoring above 90, or None
find_duplicate(unified_doc, index) ==
  LET key   == fingerprint_name(unified_doc["name"])
      cands == Candidates(index, key)
      hits  == {i \in 1..Len(cands) : CandidateScore(unified_doc, cands[i][2]) > 90}
  IN  IF hits = {} THEN None
      ELSE cands[CHOOSE i \in hits : \A j \in hits : i <= j][1]

(***************************************************************************)
(* The store: the unified_speakers collection and bulk_write.              *)
(***************************************************************************)
\* the permutations of a finite set, as sequences
RECURSIVE Perms(_)
Perms(S) ==
  IF S = {} THEN {<<>>}
  ELSE UNION {{<<x>> \o p : p \in Perms(S \ {x})} : x \in S}

\* {"$set": update} on a stored document: the keys of update are
\* overwritten, every other key keeps its value
SetFields(old, update) ==
  [k \in DOMAIN old \cup DOMAIN update |->
     IF k \in DOMAIN update THEN update[k] ELSE old[k]]

\* UpdateOne({"_id": op.filter}, {"$set": op.update}) and
\* UpdateOne({"_id": op.filter}, {"$setOnInsert": op.update}, upsert=True)
\* applied by the store to the collection
ApplyOp(coll, op) ==
  IF op.filter \in DOMAIN coll
  THEN IF op.kind = "set"
       THEN [coll EXCEPT ![op.filter] = SetFields(@, op.update)]
       ELSE coll
  ELSE IF op.upsert
       THEN coll @@ (op.filter :> SetFields([k \in {"_id"} |-> op.filter], op.update))
       ELSE coll

\* the sets of positions of a batch of n operations that may fail together
Failures(n) == {F \in SUBSET (1..n) : Cardinality(F) <= MaxFailed}

\* the stored document under an id, as a sequence of zero or one documents
Stored(coll, id) == IF id \in DOMAIN coll THEN <<coll[id]>> ELSE <<>>

\* bulk_write(ops, ordered=False): the store applies the operations in the
\* order it chooses, skips the ones that fail (failed: their positions in
\* ops) and goes on with the others.  The result is the collection and the
\* record of what each operation did: log[i] is about ops[i].
RECURSIVE bulk_write(_, _, _, _)
bulk_write(coll, ops, order, failed) ==
  IF order = <<>> THEN [coll |-> coll, log |-> <<>>]
  ELSE LET n    == Len(order)
           prev == bulk_write(coll, ops, SubSeq(order, 1, n - 1), failed)
           op   == ops[order[n]]
           ok   == order[n] \notin failed
           next == IF ok THEN ApplyOp(prev.coll, op) ELSE prev.coll
       IN  [ coll |-> next,
             log  |-> (order[n] :>
                        [ op     |-> op,
                          ok     |-> ok,
                          before |-> Stored(prev.coll, op.filter),
                          after  |-> Stored(next, op.filter) ]) @@ prev.log ]

(***************************************************************************)
(* 4. MAIN: run()                                                          *)
(***************************************************************************)
VARIABLES
  srcDocs,     \* input: source database name -> the documents find({}) yields
  absent,      \* input: the source databases (or collections) that do not exist
  invocations, \* input: how many times run() is executed
  unified,     \* the unified_speakers collection: _id -> document
  runNo,       \* number of executions of run() started so far
  pc,          \* where the current execution is
  srcIdx,      \* position of the for loop over SRC_DATABASES
  docIdx,      \* position of the for loop over src_col.find({})
  dedupe_idx,  \* fingerprint -> sequence of <<_id, city>>
  bulk_ops,    \* the buffered operations
  total_in, total_upd, total_new,
  clock,       \* datetime.utcnow()
  submitted,   \* the batches handed to bulk_write in this execution, in order
  resolved,    \* what the executions decided for each transformed document
  applied,     \* what the latest bulk_write did, operation by operation
  outcomes     \* how each finished execution ended: "done" or the exception

vars == << TOPIC_MAP, srcDocs, absent, invocations, unified, runNo, pc, srcIdx, docIdx, dedupe_idx,
           bulk_ops, total_in, total_upd, total_new, clock, submitted,
           resolved, applied, outcomes >>

inputs == << TOPIC_MAP, srcDocs, absent, invocations >>

CurrentSource == SRC_DATABASES[srcIdx]
CurrentDoc    == srcDocs[CurrentSource][docIdx]

\* lines 425-434: connect, build the index, empty buffer and counters
StartRun ==
  /\ pc \in {"idle", "done", "KeyError", "BulkWriteError"}
  /\ runNo < invocations
  /\ \E scan \in Perms(DOMAIN unified) :
       dedupe_idx' = build_dedupe_index(unified, scan)
  /\ runNo' = runNo + 1
  /\ pc' = "sources"
  /\ srcIdx' = 1
  /\ docIdx' = 0
  /\ bulk_ops' = <<>>
  /\ total_in' = 0 /\ total_upd' = 0 /\ total_new' = 0
  /\ submitted' = <<>> /\ applied' = <<>>
  /\ UNCHANGED << inputs, unified, clock, resolved, outcomes >>

\* lines 441-443, 449-457: database or speaker collection not found: continue
SkipSource ==
  /\ pc = "sources"
  /\ srcIdx <= NumSources
  /\ CurrentSource \in absent
  /\ srcIdx' = srcIdx + 1
  /\ UNCHANGED << inputs, unified, runNo, pc, docIdx, dedupe_idx, bulk_ops,
                  total_in, total_upd, total_new, clock, submitted, resolved,
                  applied, outcomes >>

\* lines 459-463: open the cursor over the source collection
OpenSource ==
  /\ pc = "sources"
  /\ srcIdx <= NumSources
  /\ CurrentSource \notin absent
  /\ pc' = "docs"
  /\ docIdx' = 1
  /\ UNCHANGED << inputs, unified, runNo, srcIdx, dedupe_idx, bulk_ops,
                  total_in, total_upd, total_new, clock, submitted, resolved,
                  applied, outcomes >>

\* {k: v for k, v in d.items() if k != key}
WithoutKey(d, key) == [k \in DOMAIN d \ {key} |-> d[k]]

\* d[key] = value
WithKey(d, key, value) ==
  [k \in DOMAIN d \cup {key} |-> IF k = key THEN value ELSE d[k]]

\* mutant of MergeOp: "_id" is not removed from the update document
MergeOp_KeepId(u_doc, dup_id, now) ==
  [ kind   |-> "set",
    filter |-> dup_id,
    update |-> WithKey(u_doc, "updated_at", now),
    upsert |-> FALSE ]

\* lines 470-475: the update of an existing record
MergeOp(u_doc, dup_id, now) ==
  [ kind   |-> "set",
    filter |-> dup_id,
    update |-> WithoutKey(WithKey(u_doc, "updated_at", now), "_id"),
    upsert |-> FALSE ]

\* mutant of InsertOp: upsert=True is left out
InsertOp_NoUpsert(u_doc, now) ==
  [ kind   |-> "setOnInsert",
    filter |-> u_doc["_id"],
    update |-> WithKey(u_doc, "created_at", now),
    upsert |-> FALSE ]

\* mutant of InsertOp: $set for $setOnInsert
InsertOp_Set(u_doc, now) ==
  [ kind   |-> "set",
    filter |-> u_doc["_id"],
    update |-> WithKey(u_doc, "created_at", now),
    upsert |-> TRUE ]

\* lines 478-479: the insert of a new record
InsertOp(u_doc, now) ==
  [ kind   |-> "setOnInsert",
    filter |-> u_doc["_id"],
    update |-> WithKey(u_doc, "created_at", now),
    upsert |-> TRUE ]

\* lines 466-481: the operation run() buffers for a transformed document
ResolveOp(u_doc, index, now) ==
  LET dup_id == find_duplicate(u_doc, index)
  IN  IF dup_id # None THEN MergeOp(u_doc, dup_id, now) ELSE InsertOp(u_doc, now)

\* mutant of IndexAfter: the in-run index update of line 481 is left out
IndexAfter_NoUpdate(u_doc, index) == index

\* line 481: the index after the document is resolved
IndexAfter(u_doc, index) ==
  IF find_duplicate(u_doc, index) # None THEN index
  ELSE IndexAppend(index, fingerprint_name(u_doc["name"]),
                   <<u_doc["_id"], CityOf(u_doc)>>)

\* what run() decided for a document: the branch of line 469 it took and
\* the operation it buffered
Resolution(run, s, doc, u_doc, index, op) ==
  [ run     |-> run,
    source  |-> s,
    raw_id  |-> doc["_id"],
    id      |-> u_doc["_id"],
    name    |-> u_doc["name"],
    city    |-> CityOf(u_doc),
    key     |-> fingerprint_name(u_doc["name"]),
    cands   |-> Candidates(index, fingerprint_name(u_doc["name"])),
    outcome |-> IF find_duplicate(u_doc, index) # None THEN "MERGE" ELSE "INSERT",
    op      |-> op ]

\* mutant of ThresholdReached: > for >=
ThresholdReached_Late(ops) == Len(ops) > FlushThreshold

\* line 484: len(bulk_ops) >= 1000
ThresholdReached(ops) == Len(ops) >= FlushThreshold

\* line 466 raises KeyError: nothing catches it, run() ends there
TransformRaises ==
  /\ pc = "docs"
  /\ docIdx <= Len(srcDocs[CurrentSource])
  /\ RaisesKeyError(CurrentSource, CurrentDoc)
  /\ total_in' = total_in + 1
  /\ pc' = "KeyError"
  /\ outcomes' = Append(outcomes, "KeyError")
  /\ UNCHANGED << inputs, unified, runNo, srcIdx, docIdx, dedupe_idx, bulk_ops,
                  total_upd, total_new, clock, submitted, resolved, applied >>

\* lines 464-486, one iteration of the document loop whose buffer stays
\* below the threshold
ResolveDoc ==
  /\ pc = "docs"
  /\ docIdx <= Len(srcDocs[CurrentSource])
  /\ ~RaisesKeyError(CurrentSource, CurrentDoc)
  /\ LET u_doc == Transform(CurrentSource, CurrentDoc)
         op    == ResolveOp(u_doc, dedupe_idx, clock + 1)
     IN  /\ ~ThresholdReached(Append(bulk_ops, op))
         /\ bulk_ops' = Append(bulk_ops, op)
         /\ dedupe_idx' = IndexAfter(u_doc, dedupe_idx)
         /\ total_upd' = total_upd + (IF op.kind = "set" THEN 1 ELSE 0)
         /\ total_new' = total_new + (IF op.kind = "set" THEN 0 ELSE 1)
         /\ resolved' = Append(resolved,
              Resolution(runNo, CurrentSource, CurrentDoc, u_doc, dedupe_idx, op))
  /\ total_in' = total_in + 1
  /\ clock' = clock + 1
  /\ docIdx' = docIdx + 1
  /\ UNCHANGED << inputs, unified, runNo, pc, srcIdx, submitted, applied, outcomes >>

\* lines 464-486, one iteration of the document loop whose buffer reaches
\* the threshold: bulk_write, then bulk_ops = [].  bulk_write raises
\* BulkWriteError when an operation failed; nothing catches it.
ResolveAndFlush ==
  /\ pc = "docs"
  /\ docIdx <= Len(srcDocs[CurrentSource])
  /\ ~RaisesKeyError(CurrentSource, CurrentDoc)
  /\ LET u_doc == Transform(CurrentSource, CurrentDoc)
         op    == ResolveOp(u_doc, dedupe_idx, clock + 1)
         ops   == Append(bulk_ops, op)
     IN  /\ ThresholdReached(ops)
         /\ dedupe_idx' = IndexAfter(u_doc, dedupe_idx)
         /\ total_upd' = total_upd + (IF op.kind = "set" THEN 1 ELSE 0)
         /\ total_new' = total_new + (IF op.kind = "set" THEN 0 ELSE 1)
         /\ resolved' = Append(resolved,
              Resolution(runNo, CurrentSource, CurrentDoc, u_doc, dedupe_idx, op))
         /\ submitted' = Append(submitted, ops)
         /\ \E order \in Perms(1..Len(ops)), failed \in Failures(Len(ops)) :
              LET res == bulk_write(unified, ops, order, failed)
              IN  /\ unified' = res.coll
                  /\ applied' = res.log
                  /\ IF failed = {}
                     THEN /\ bulk_ops' = <<>>
                          /\ docIdx' = docIdx + 1
                          /\ pc' = pc
                          /\ outcomes' = outcomes
                     ELSE /\ bulk_ops' = ops
                          /\ docIdx' = docIdx
                          /\ pc' = "BulkWriteError"
                          /\ outcomes' = Append(outcomes, "BulkWriteError")
  /\ total_in' = total_in + 1
  /\ clock' = clock + 1
  /\ UNCHANGED << inputs, runNo, srcIdx >>

\* mutant of EndSource: the remainder is flushed after every source
EndSource_Flush ==
  /\ pc = "docs"
  /\ docIdx > Len(srcDocs[CurrentSource])
  /\ pc' = "sources"
  /\ srcIdx' = srcIdx + 1
  /\ IF bulk_ops # <<>>
     THEN /\ submitted' = Append(submitted, bulk_ops)
          /\ unified' = bulk_write(unified, bulk_ops,
                                   [i \in 1..Len(bulk_ops) |-> i], {}).coll
          /\ bulk_ops' = <<>>
     ELSE UNCHANGED << unified, submitted, bulk_ops >>
  /\ UNCHANGED << inputs, runNo, docIdx, dedupe_idx, total_in, total_upd,
                  total_new, clock, resolved, applied, outcomes >>

\* line 488: the cursor is exhausted, on to the next source
EndSource ==
  /\ pc = "docs"
  /\ docIdx > Len(srcDocs[CurrentSource])
  /\ pc' = "sources"
  /\ srcIdx' = srcIdx + 1
  /\ UNCHANGED << inputs, unified, runNo, docIdx, dedupe_idx, bulk_ops,
                  total_in, total_upd, total_new, clock, submitted, resolved,
                  applied, outcomes >>

\* mutant of Finish: the final flush is left out
Finish_NoFlush ==
  /\ pc = "sources"
  /\ srcIdx > NumSources
  /\ pc' = "done"
  /\ outcomes' = Append(outcomes, "done")
  /\ UNCHANGED << inputs, unified, runNo, srcIdx, docIdx, dedupe_idx, bulk_ops,
                  total_in, total_upd, total_new, clock, submitted, resolved,
                  applied >>

\* lines 490-499: after the last source, the remainder is written if there
\* is one; bulk_ops is not reassigned
Finish ==
  /\ pc = "sources"
  /\ srcIdx > NumSources
  /\ IF bulk_ops # <<>>
     THEN /\ submitted' = Append(submitted, bulk_ops)
          /\ \E order \in Perms(1..Len(bulk_ops)),
                failed \in Failures(Len(bulk_ops)) :
               LET res == bulk_write(unified, bulk_ops, order, failed)
               IN  /\ unified' = res.coll
                   /\ applied' = res.log
                   /\ pc' = IF failed = {} THEN "done" ELSE "BulkWriteError"
     ELSE /\ pc' = "done"
          /\ UNCHANGED << unified, submitted, applied >>
  /\ outcomes' = Append(outcomes, pc')
  /\ UNCHANGED << inputs, runNo, srcIdx, docIdx, dedupe_idx, bulk_ops,
                  total_in, total_upd, total_new, clock, resolved >>

Next ==
  \/ StartRun
  \/ SkipSource
  \/ OpenSource
  \/ TransformRaises
  \/ ResolveDoc
  \/ ResolveAndFlush
  \/ EndSource
  \/ Finish

(***************************************************************************)
(* Inputs.                                                                 *)
(***************************************************************************)
JaneDoe     == <<"J","a","n","e"," ","D","o","e">>
JohnSmith   == <<"J","o","h","n"," ","S","m","i","t","h">>
DrJaneONeil == <<"D","r","."," ","J","a","n","e"," ","O","'","N","e","i","l">>
JaneONeil   == <<"J","a","n","e"," ","O","'","N","e","i","l">>
janeoneil   == <<"j","a","n","e"," ","o","n","e","i","l">>

Austin      == <<"A","u","s","t","i","n">>
austin      == <<"a","u","s","t","i","n">>
TX          == <<"T","X">>
USA         == <<"U","S","A">>

\* topic strings: a canonical term, raw forms with and without surplus
\* whitespace, and a topic no mapping lists
TopicAI     == <<"A","I">>
TopicML     == <<"M","L">>
Topic_ai    == <<"a","i">>
Topic_ai_ws == <<" ","a","i">>
Topic_m_l   == <<"m","\t"," ","l">>
TopicZen    == <<"Z","e","n">>

\* contents of topic_mapping.json: none, one term, and two terms that both
\* list the raw form "ai"
Vocabularies ==
  { <<>>,
    << [canonical |-> TopicAI, raws |-> <<Topic_ai, <<"m"," ","l">> >>] >>,
    << [canonical |-> TopicAI, raws |-> <<Topic_ai>>],
       [canonical |-> TopicML, raws |-> << <<"m"," ","l">>, Topic_ai >>] >> }

\* the mapping of the specifications whose documents carry no topics
DefaultVocabulary ==
  << [canonical |-> TopicAI, raws |-> <<Topic_ai, <<"m"," ","l">> >>] >>

\* names without any letter a-z
Name42      == <<"4","2">>
Name7       == <<"7">>

\* the start of every execution: nothing has run yet, the collection is empty
InitRun ==
  /\ unified = <<>>
  /\ runNo = 0
  /\ pc = "idle"
  /\ srcIdx = 0
  /\ docIdx = 0
  /\ dedupe_idx = <<>>
  /\ bulk_ops = <<>>
  /\ total_in = 0 /\ total_upd = 0 /\ total_new = 0
  /\ clock = 0
  /\ submitted = <<>> /\ resolved = <<>> /\ applied = <<>> /\ outcomes = <<>>

\* the documents of pool p (a sequence of [source, doc]) picked by pick (a
\* sequence of positions in p) that belong to source s, in picking order
RECURSIVE DocsOf(_, _, _)
DocsOf(p, pick, s) ==
  IF pick = <<>> THEN <<>>
  ELSE LET e == p[Head(pick)]
       IN  (IF e.source = s THEN <<e.doc>> ELSE <<>>) \o DocsOf(p, Tail(pick), s)

SourceNames == {SRC_DATABASES[i] : i \in 1..NumSources}

\* sources that may be missing when they hold no document
AbsentChoices == {{}, {"freespeakerbureau_scraper", "thespeakerhandbook_scraper"}}

\* the databases of those sources are missing when none of them holds a
\* document; every other source without documents exists and is empty
InputAbsent ==
  absent = UNION {A \in AbsentChoices : \A s \in A : srcDocs[s] = <<>>}

\* Documents of the merge scenario: two sources hold "Jane Doe" of Austin,
\* John Smith appears before, between or after them, one document has no
\* name, one document of a strict source has no speaker_id.
Pool ==
  << [ source |-> "a_speakers",
       doc |-> [ _id |-> "a1", name |-> JaneDoe, location |-> <<Austin, TX, USA>> ] ],
     [ source |-> "a_speakers",
       doc |-> [ _id |-> "a2", name |-> JohnSmith, location |-> <<USA>> ] ],
     [ source |-> "allamericanspeakers",
       doc |-> [ _id |-> "m1", name |-> JaneDoe ] ],
     [ source |-> "bigspeak_scraper",
       doc |-> [ _id |-> "b1", native_id |-> "s1", name |-> JaneDoe,
                 location |-> <<austin, USA>> ] ],
     [ source |-> "eventraptor",
       doc |-> [ _id |-> "e1", native_id |-> "s1" ] ],
     [ source |-> "sessionize_scraper",
       doc |-> [ _id |-> "z1", name |-> JohnSmith ] ] >>

Init ==
  /\ InitRun
  /\ \E n \in 0..MaxDocs :
       \E pick \in {f \in [1..n -> 1..Len(Pool)] : \A i, j \in 1..n : i # j => f[i] # f[j]} :
         srcDocs = [s \in SourceNames |-> DocsOf(Pool, pick, s)]
  /\ InputAbsent
  /\ invocations = MaxRuns
  /\ TOPIC_MAP = DefaultVocabulary

Spec == Init /\ [][Next]_vars

\* Documents of the batch scenario: up to MaxBatchDocs documents over three
\* sources, named in turn "Jane O'Neil", "Dr. Jane O'Neil" and "jane oneil";
\* the third document of the strict source has no speaker_id.
BatchSources == <<"a_speakers", "allamericanspeakers", "speakerhub_scraper">>
BatchNames   == <<JaneONeil, DrJaneONeil, janeoneil>>
IdText       == <<"1", "2", "3", "4", "5", "6", "7", "8", "9">>

BatchDoc(s, i, j) ==
  IF IdRule[s] = "strict" /\ j # 3
  THEN [ _id |-> IdText[j], native_id |-> IdText[j],
         name |-> BatchNames[((i + j) % 3) + 1] ]
  ELSE [ _id |-> IdText[j], name |-> BatchNames[((i + j) % 3) + 1] ]

InitBatch ==
  /\ InitRun
  /\ \E n \in [1..Len(BatchSources) -> 0..MaxBatchDocs] :
       /\ n[1] + n[2] + n[3] <= MaxBatchDocs
       /\ srcDocs =
            [s \in SourceNames |->
               IF \E i \in 1..Len(BatchSources) : BatchSources[i] = s
               THEN LET i == CHOOSE i \in 1..Len(BatchSources) : BatchSources[i] = s
                    IN  [j \in 1..n[i] |-> BatchDoc(s, i, j)]
               ELSE <<>>]
  /\ InputAbsent
  /\ invocations = BatchRuns
  /\ TOPIC_MAP = DefaultVocabulary

SpecBatch == InitBatch /\ [][Next]_vars

\* Documents of the topic scenario: one a_speakers document whose topic list
\* is any list of up to MaxTopics raw topics (or is missing), under any of
\* the mappings; allamericanspeakers holds zero, one or two documents, the
\* second without speaker_id.
RawTopicPool == {TopicAI, Topic_ai, Topic_ai_ws, Topic_m_l, TopicZen}

TopicLists == UNION {[1..n -> RawTopicPool] : n \in 0..MaxTopics}

TopicDocs ==
  << [ _id |-> "1", native_id |-> "1", name |-> JohnSmith,
       topics |-> <<TopicZen, Topic_ai, TopicZen>> ],
     [ _id |-> "2", name |-> JaneDoe ] >>

InitTopics ==
  /\ InitRun
  /\ TOPIC_MAP \in Vocabularies
  /\ \E a \in {[ _id |-> "1", name |-> JaneDoe ]}
               \cup {[ _id |-> "1", name |-> JaneDoe, topics |-> l ] : l \in TopicLists},
        k \in 0..Len(TopicDocs) :
       srcDocs = [s \in SourceNames |->
                    CASE s = "a_speakers" -> <<a>>
                      [] s = "allamericanspeakers" -> SubSeq(TopicDocs, 1, k)
                      [] OTHER -> <<>>]
  /\ InputAbsent
  /\ invocations = BatchRuns

SpecTopics == InitTopics /\ [][Next]_vars

\* Documents of the index scenario: records without a name, records whose
\* name holds no letter, in Austin or without a city, "Jane Doe" of two
\* cities and without one, and one document of a strict source without
\* speaker_id.
IndexPool ==
  << [ source |-> "a_speakers",
       doc |-> [ _id |-> "a1", name |-> JaneDoe, location |-> <<Austin, TX, USA>> ] ],
     [ source |-> "allamericanspeakers",
       doc |-> [ _id |-> "m1", name |-> JaneDoe ] ],
     [ source |-> "eventraptor",
       doc |-> [ _id |-> "e1", native_id |-> "s1" ] ],
     [ source |-> "sessionize_scraper",
       doc |-> [ _id |-> "z3", location |-> <<Austin, USA>> ] ],
     [ source |-> "speakerhub_scraper",
       doc |-> [ _id |-> "h1", name |-> Name42, location |-> <<austin, USA>> ] ],
     [ source |-> "speakerhub_scraper",
       doc |-> [ _id |-> "h2", name |-> Name7 ] ],
     [ source |-> "thespeakerhandbook_scraper",
       doc |-> [ _id |-> "t1", name |-> JaneDoe, location |-> <<TX, USA>> ] ] >>

InitIndex ==
  /\ InitRun
  /\ \E n \in 0..MaxIndexDocs :
       \E pick \in {f \in [1..n -> 1..Len(IndexPool)] :
                      \A i, j \in 1..n : i # j => f[i] # f[j]} :
         srcDocs = [s \in SourceNames |-> DocsOf(IndexPool, pick, s)]
  /\ InputAbsent
  /\ invocations = BatchRuns
  /\ TOPIC_MAP = DefaultVocabulary

SpecIndex == InitIndex /\ [][Next]_vars

(***************************************************************************)
(* Properties.                                                             *)
(***************************************************************************)
\* the resolutions of execution number r, in order
ResolvedIn(r) == SelectSeq(resolved, LAMBDA e : e.run = r)

Running == pc \in {"sources", "docs"}

SameCity(c1, c2) == Truthy(c1) /\ Truthy(c2) /\ Lower(c1) = Lower(c2)

\* C1: in the first execution, which starts from an empty collection, the
\* first record named "Jane Doe" resolves to INSERT; a later "Jane Doe" of
\* the same city from another source resolves to MERGE into the entity that
\* first record inserted; and "John Smith" resolves to INSERT wherever it
\* stands among them.
C1_MergeVsInsert ==
  LET log == ResolvedIn(1)
  IN  \A i \in DOMAIN log :
        LET r      == log[i]
            before == {j \in 1..(i - 1) : log[j].name = r.name}
        IN  /\ (r.name = JaneDoe /\ before = {}) => r.outcome = "INSERT"
            /\ (r.name = JaneDoe /\ before # {}) =>
                 LET first == log[CHOOSE j \in before : \A k \in before : j <= k]
                 IN  (first.source # r.source /\ SameCity(first.city, r.city)) =>
                       /\ r.outcome = "MERGE"
                       /\ r.op.kind = "set"
                       /\ r.op.filter = first.id
                       /\ first.outcome = "INSERT"
            /\ (r.name = JohnSmith /\ before = {}) =>
                 /\ r.outcome = "INSERT"
                 /\ r.op.kind = "setOnInsert"
                 /\ r.op.filter = r.id

\* C1 witness: "Jane Doe" inserted, "John Smith" inserted after it, and the
\* second "Jane Doe" merged into the first one's id
C1_Witness ==
  LET log == ResolvedIn(1)
  IN  /\ Len(log) = 3
      /\ log[1].name = JaneDoe /\ log[1].outcome = "INSERT"
      /\ log[2].name = JohnSmith /\ log[2].outcome = "INSERT"
      /\ log[3].name = JaneDoe /\ log[3].outcome = "MERGE"
      /\ log[3].source # log[1].source
      /\ log[3].op.filter = log[1].id

\* the documents the sources hold, as <<source, position>>
SourceRecords == {<<s, i>> \in SourceNames \X (1..MaxDocs + MaxBatchDocs) : i <= Len(srcDocs[s])}

\* the stored records whose "_id" is id
RecordsWithId(id) == {x \in DOMAIN unified : unified[x]["_id"] = id}

\* the last two executions both returned normally
TwoCompleteRuns ==
  /\ pc = "done"
  /\ Len(outcomes) >= 2
  /\ outcomes[Len(outcomes)] = "done"
  /\ outcomes[Len(outcomes) - 1] = "done"

\* the resolution of source record <<s, i>> in execution r was INSERT
InsertedIn(r, s, i) ==
  \E k \in DOMAIN resolved :
    /\ resolved[k].run = r
    /\ resolved[k].source = s
    /\ resolved[k].raw_id = srcDocs[s][i]["_id"]
    /\ resolved[k].outcome = "INSERT"

\* C2 as stated: after two complete executions over the same source data,
\* for every source record exactly one stored record has its deterministic
\* id.
C2_ExactlyOnePerSourceRecord ==
  TwoCompleteRuns =>
    \A rec \in SourceRecords :
      Cardinality(RecordsWithId(Transform(rec[1], srcDocs[rec[1]][rec[2]])["_id"])) = 1

\* C2 amended: after two complete executions over the same source data, at
\* most one stored record has the deterministic id of a source record, and
\* exactly one when the first of the two executions resolved the record to
\* INSERT (a record resolved to MERGE is stored under its target's id).
C2_OnePerInsertedRecord ==
  TwoCompleteRuns =>
    \A rec \in SourceRecords :
      LET id == Transform(rec[1], srcDocs[rec[1]][rec[2]])["_id"]
      IN  /\ Cardinality(RecordsWithId(id)) <= 1
          /\ InsertedIn(runNo - 1, rec[1], rec[2]) => Cardinality(RecordsWithId(id)) = 1

\* C2 witness: two complete executions, one record inserted by the first
\* and stored under its id, another merged and absent under its own id
C2_Witness ==
  /\ TwoCompleteRuns
  /\ \E r1, r2 \in SourceRecords :
       /\ InsertedIn(runNo - 1, r1[1], r1[2])
       /\ Cardinality(RecordsWithId(Transform(r1[1], srcDocs[r1[1]][r1[2]])["_id"])) = 1
       /\ ~InsertedIn(runNo - 1, r2[1], r2[2])
       /\ RecordsWithId(Transform(r2[1], srcDocs[r2[1]][r2[2]])["_id"]) = {}

\* every document that has its identifier, of every source that exists, has
\* been resolved by the current execution
AllResolved ==
  \A rec \in SourceRecords :
    LET s == rec[1]
        d == srcDocs[s][rec[2]]
    IN  (s \notin absent /\ ~RaisesKeyError(s, d)) =>
          \E k \in DOMAIN resolved :
            /\ resolved[k].run = runNo
            /\ resolved[k].source = s
            /\ resolved[k].raw_id = d["_id"]

\* every operation the current execution created was handed to bulk_write
AllSubmitted ==
  \A k \in DOMAIN resolved :
    resolved[k].run = runNo =>
      \E b \in DOMAIN submitted : \E i \in DOMAIN submitted[b] :
        submitted[b][i] = resolved[k].op

\* C3 as stated: a record without its native identifier is skipped alone:
\* when the execution is over, whether or not it met such a record, the
\* other documents of the source and of the later sources have been
\* resolved and the buffered operations have been flushed.
C3_SkipsOnlyThatRecord ==
  pc \in {"done", "KeyError"} => (AllResolved /\ AllSubmitted)

\* C4 as stated: operations of a flushed batch failing in the store do not
\* end the execution: when it is over, whether or not a batch had failing
\* operations, every record after that batch has been resolved and its
\* operation submitted in a later flush.
C4_SurvivesBatchFailure ==
  pc \in {"done", "BulkWriteError"} => (AllResolved /\ AllSubmitted)

\* the number of records the current execution has resolved
NumResolved == Len(ResolvedIn(runNo))

\* the operations of the current execution, in the order they were created
CreatedOps == LET log == ResolvedIn(runNo) IN [k \in DOMAIN log |-> log[k].op]

RECURSIVE Flatten(_)
Flatten(batches) ==
  IF batches = <<>> THEN <<>> ELSE Head(batches) \o Flatten(Tail(batches))

\* C5 as stated, for N >= 1: a complete execution that resolved N records
\* made floor(N / threshold) flushes of exactly threshold operations each,
\* plus exactly one final flush holding the N mod threshold remaining
\* operations.
C5_FlushesPlusOne ==
  (pc = "done" /\ NumResolved >= 1) =>
    LET q == NumResolved \div FlushThreshold
    IN  /\ Len(submitted) = q + 1
        /\ \A i \in 1..q : Len(submitted[i]) = FlushThreshold
        /\ Len(submitted[q + 1]) = NumResolved % FlushThreshold

\* C5 amended: a complete execution that resolved N records made
\* floor(N / threshold) flushes of exactly threshold operations each, plus
\* one final flush of the N mod threshold remaining operations when that
\* remainder is not zero, and no final flush when it is zero; sources
\* without documents change nothing.
C5_FlushCount ==
  pc = "done" =>
    LET q == NumResolved \div FlushThreshold
        r == NumResolved % FlushThreshold
    IN  /\ Len(submitted) = q + (IF r > 0 THEN 1 ELSE 0)
        /\ \A i \in 1..q : Len(submitted[i]) = FlushThreshold
        /\ r > 0 => Len(submitted[q + 1]) = r

\* C5 witness: a complete execution with a full flush, a final flush of the
\* remainder, and an existing source without documents before the last
\* document
C5_Witness ==
  /\ pc = "done"
  /\ NumResolved > FlushThreshold
  /\ NumResolved % FlushThreshold > 0
  /\ Len(submitted) = (NumResolved \div FlushThreshold) + 1
  /\ "a_speakers" \notin absent
  /\ srcDocs["a_speakers"] = <<>>
  /\ srcDocs["allamericanspeakers"] = <<>>
  /\ srcDocs["speakerhub_scraper"] # <<>>

\* C6 as stated: at every source boundary the buffer is empty, the
\* operations still buffered having been flushed when the source was
\* drained.
C6_EmptyAtSourceBoundary ==
  pc = "sources" => bulk_ops = <<>>

\* C6 amended: when a source is drained the operations still buffered are
\* not flushed but carried into the next source: at a source boundary the
\* buffer holds the N mod threshold latest operations, N being the records
\* resolved so far; the only flush of fewer than threshold operations is
\* the one made after all the sources are exhausted.
C6_CarriedOverSources ==
  /\ pc = "sources" =>
       /\ Len(bulk_ops) = NumResolved % FlushThreshold
       /\ bulk_ops = SubSeq(CreatedOps, NumResolved - Len(bulk_ops) + 1, NumResolved)
  /\ \A i \in DOMAIN submitted :
       Len(submitted[i]) < FlushThreshold =>
         /\ i = Len(submitted)
         /\ srcIdx > NumSources
         /\ pc \in {"done", "BulkWriteError"}

\* C6 witness: a boundary between two sources that hold documents, with
\* operations in the buffer
C6_Witness ==
  /\ pc = "sources"
  /\ srcIdx = 2
  /\ srcDocs["a_speakers"] # <<>>
  /\ srcDocs["allamericanspeakers"] # <<>>
  /\ bulk_ops # <<>>

\* C7 as stated: in a complete execution every resolved record contributed
\* exactly one operation, every operation was submitted in some flush, and
\* the buffer is empty at completion.
C7_AllSubmittedBufferEmpty ==
  pc = "done" => (Flatten(submitted) = CreatedOps /\ bulk_ops = <<>>)

\* C7 amended: in a complete execution every resolved record contributed
\* exactly one operation and every operation was submitted, once, in some
\* flush: no operation is dropped.  The buffer is empty at completion or
\* still holds the batch of the final flush, which does not clear it.
C7_AllSubmittedOnce ==
  pc = "done" =>
    /\ Flatten(submitted) = CreatedOps
    /\ \/ bulk_ops = <<>>
       \/ (submitted # <<>> /\ bulk_ops = submitted[Len(submitted)])

\* C7 witness: a complete execution with a full flush and a final flush,
\* whose batch is still in the buffer
C7_Witness ==
  /\ pc = "done"
  /\ Len(submitted) >= 2
  /\ bulk_ops # <<>>
  /\ Flatten(submitted) = CreatedOps

\* the entries of the latest bulk_write about MERGE updates that the store
\* applied to an existing target
AppliedMerges ==
  {i \in DOMAIN applied :
     applied[i].op.kind = "set" /\ applied[i].ok /\ applied[i].before # <<>>}

\* C8 as stated: after a MERGE is applied the target keeps its id, every
\* field of the incoming record has the incoming value, updated_at is set,
\* and the rest of the record is entirely the incoming version: no field of
\* the previous version survives.
C8_MergeReplacesRecord ==
  \A i \in AppliedMerges :
    LET old == applied[i].before[1]
        new == applied[i].after[1]
        inc == applied[i].op.update
    IN  /\ new["_id"] = old["_id"]
        /\ \A k \in DOMAIN inc : new[k] = inc[k]
        /\ "updated_at" \in DOMAIN new
        /\ DOMAIN new = DOMAIN inc \cup {"_id"}

\* C8 amended: after a MERGE is applied the target keeps its id, every
\* field of the incoming record has the incoming value and updated_at is
\* set; the fields of the previous version that the incoming record does
\* not carry (created_at, and the fields only the earlier source provides)
\* survive with their previous values.
C8_MergeOverwritesFields ==
  \A i \in AppliedMerges :
    LET old == applied[i].before[1]
        new == applied[i].after[1]
        inc == applied[i].op.update
    IN  /\ new["_id"] = old["_id"]
        /\ new["_id"] = applied[i].op.filter
        /\ \A k \in DOMAIN inc : new[k] = inc[k]
        /\ "updated_at" \in DOMAIN new
        /\ DOMAIN new = DOMAIN old \cup DOMAIN inc
        /\ \A k \in DOMAIN old \ DOMAIN inc : new[k] = old[k]

\* C8 witness: a MERGE applied to a record of another source, which keeps
\* created_at and a field the incoming record does not have
C8_Witness ==
  \E i \in AppliedMerges :
    LET old == applied[i].before[1]
        new == applied[i].after[1]
        inc == applied[i].op.update
    IN  /\ old["source_info"].original_source # inc["source_info"].original_source
        /\ new["source_info"] = inc["source_info"]
        /\ "created_at" \in DOMAIN new
        /\ "ratings" \in DOMAIN new \ DOMAIN inc

\* the entries of the latest bulk_write about the operation of a record
\* resolved to INSERT, which the store did not fail
AppliedInserts ==
  {i \in DOMAIN applied :
     /\ applied[i].ok
     /\ \E k \in DOMAIN resolved :
          resolved[k].outcome = "INSERT" /\ resolved[k].op = applied[i].op}

\* C9: the operation of an INSERT is an upsert keyed by the incoming
\* record's own id; applied to a collection that already holds a document
\* with that id it leaves the document unchanged in every field, otherwise
\* it creates the document with the incoming record's content.
C9_InsertOnlyUpsert ==
  \A i \in AppliedInserts :
    LET e == applied[i]
    IN  /\ e.op.upsert
        /\ e.op.filter = e.op.update["_id"]
        /\ \A k \in DOMAIN resolved :
             resolved[k].op = e.op => e.op.filter = resolved[k].id
        /\ e.before # <<>> => e.after = e.before
        /\ e.before = <<>> => e.after = <<e.op.update>>

\* C9 witness: an INSERT operation applied while the collection holds a
\* document with that id and other content, which stays as it was
C9_Witness ==
  \E i \in AppliedInserts :
    /\ applied[i].before # <<>>
    /\ applied[i].before[1] # applied[i].op.update
    /\ applied[i].after = applied[i].before

\* the fingerprints find_duplicate computed for the records named name
KeysOf(name) == {resolved[k].key : k \in {i \in DOMAIN resolved : resolved[i].name = name}}

\* C10 as stated: "Dr. Jane O'Neil" and "jane oneil" have the same
\* fingerprint.
C10_DrJaneSameFingerprint ==
  \A k1 \in KeysOf(DrJaneONeil), k2 \in KeysOf(janeoneil) : k1 = k2

\* C10 amended: "Jane O'Neil" and "jane oneil" have the same fingerprint,
\* "janeoneil"; "Dr. Jane O'Neil" has the fingerprint "drjaneoneil", which
\* keeps the letters of the title.  A fingerprint is the name lowercased
\* with every character other than a letter a-z removed: it holds only
\* lower-case letters, as many as the name holds letters.
C10_LettersOnlyLowercased ==
  /\ \A k \in KeysOf(JaneONeil) \cup KeysOf(janeoneil) :
       k = <<"j","a","n","e","o","n","e","i","l">>
  /\ \A k \in KeysOf(DrJaneONeil) :
       k = <<"d","r","j","a","n","e","o","n","e","i","l">>
  /\ \A i \in DOMAIN resolved :
       LET r == resolved[i]
       IN  r.name # None =>
             /\ \A c \in DOMAIN r.key : r.key[c] \in {LowerCase[x] : x \in 1..26}
             /\ Len(r.key) =
                  Cardinality({c \in DOMAIN r.name :
                     r.name[c] \in {LowerCase[x] : x \in 1..26}
                                   \cup {UpperCase[x] : x \in 1..26}})

\* C10 witness: the three names have been fingerprinted, and the record
\* named "jane oneil" was merged into the one named "Jane O'Neil"
C10_Witness ==
  /\ KeysOf(JaneONeil) # {} /\ KeysOf(janeoneil) = KeysOf(JaneONeil)
  /\ KeysOf(DrJaneONeil) # {} /\ KeysOf(DrJaneONeil) # KeysOf(JaneONeil)
  /\ \E i, j \in DOMAIN resolved :
       /\ i < j
       /\ resolved[i].name = JaneONeil /\ resolved[i].outcome = "INSERT"
       /\ resolved[j].name = janeoneil /\ resolved[j].outcome = "MERGE"
       /\ resolved[j].op.filter = resolved[i].id

\* the raw document a resolution is about
RawDocOf(r) ==
  LET docs == srcDocs[r.source]
  IN  docs[CHOOSE i \in DOMAIN docs : docs[i]["_id"] = r.raw_id]

\* the raw topics handed to norm_topics for a resolution's document
RawTopicsOf(r) ==
  LET t == RawTopics(RawDocOf(r))
  IN  IF t = None THEN {} ELSE {t[i] : i \in DOMAIN t}

Elements(seq) == {seq[i] : i \in DOMAIN seq}

\* strictly ascending: sorted and duplicate-free
Ascending(seq) == \A i \in 1..(Len(seq) - 1) : StrLess(seq[i], seq[i + 1])

\* C11 as stated: every raw topic is among the topics, mapped to its
\* canonical form or unchanged when the mapping does not list it; the
\* topics the mapping does not list are also among the unmapped ones; both
\* lists are sorted and duplicate-free.
C11_RawTopicUnchanged ==
  \A i \in DOMAIN resolved :
    LET r        == resolved[i]
        topics   == Elements(r.op.update["topics"])
        unmapped == Elements(r.op.update["topics_unmapped"])
    IN  /\ \A t \in RawTopicsOf(r) :
             IF t \in DOMAIN REV_TOPIC_MAP THEN REV_TOPIC_MAP[t] \in topics
             ELSE t \in topics /\ t \in unmapped
        /\ unmapped \subseteq topics
        /\ Ascending(r.op.update["topics"])
        /\ Ascending(r.op.update["topics_unmapped"])

\* C11 amended: every raw topic, with its whitespace runs collapsed to one
\* space and its ends trimmed, is among the topics: as the canonical term
\* when the mapping lists the cleaned form, as the cleaned form itself
\* otherwise, and then it is also among the unmapped ones.  The topics hold
\* nothing else, the unmapped ones are among the topics, and both lists are
\* sorted and duplicate-free.
C11_CleanedTopicConserved ==
  \A i \in DOMAIN resolved :
    LET r        == resolved[i]
        topics   == Elements(r.op.update["topics"])
        unmapped == Elements(r.op.update["topics_unmapped"])
        clean    == {CleanTopic(t) : t \in RawTopicsOf(r)}
    IN  /\ \A c \in clean :
             IF c \in DOMAIN REV_TOPIC_MAP THEN REV_TOPIC_MAP[c] \in topics
             ELSE c \in topics /\ c \in unmapped
        /\ topics = {IF c \in DOMAIN REV_TOPIC_MAP THEN REV_TOPIC_MAP[c] ELSE c :
                       c \in clean}
        /\ unmapped = clean \ DOMAIN REV_TOPIC_MAP
        /\ unmapped \subseteq topics
        /\ Ascending(r.op.update["topics"])
        /\ Ascending(r.op.update["topics_unmapped"])
        /\ r.op.update["categories"] = r.op.update["topics"]

\* C11 witness: a document with a raw form that is mapped only once its
\* surplus whitespace is removed, and a topic the mapping does not list
C11_Witness ==
  \E i \in DOMAIN resolved :
    LET r == resolved[i]
    IN  /\ RawTopicsOf(r) = {Topic_m_l, TopicZen}
        /\ Topic_m_l \notin DOMAIN REV_TOPIC_MAP
        /\ r.op.update["topics"] = <<TopicAI, TopicZen>>
        /\ r.op.update["topics_unmapped"] = <<TopicZen>>

RECURSIVE ApplyInOrder(_, _)
ApplyInOrder(coll, ops) ==
  IF ops = <<>> THEN coll ELSE ApplyInOrder(ApplyOp(coll, Head(ops)), Tail(ops))

\* C13 as stated: the collection after a run does not depend on the order in
\* which the store applies the operations of a batch.  After the first
\* execution, which starts from the empty collection and completed, the
\* collection is the one the buffered order gives, and every MERGE the store
\* applied found the entity it updates.
C13_OrderIndependent ==
  (runNo = 1 /\ pc = "done") =>
    /\ unified = ApplyInOrder(<<>>, Flatten(submitted))
    /\ \A i \in DOMAIN applied :
         (applied[i].ok /\ applied[i].op.kind = "set") => applied[i].before # <<>>

\* C14 as stated: the index never holds an entry under the empty
\* fingerprint, so a record whose name is missing or holds no letter a-z
\* finds no candidate and resolves to INSERT: two such records are never
\* merged with each other.
C14_NoEmptyFingerprint ==
  /\ <<>> \notin DOMAIN dedupe_idx
  /\ \A i \in DOMAIN resolved :
       resolved[i].key = <<>> =>
         resolved[i].cands = <<>> /\ resolved[i].outcome = "INSERT"

=============================================================================
